---- MODULE Spec2Model ----
(***************************************************************************)
(* A model of compose-diff: the normalizer (internal/parser/normalizer.go),*)
(* the structural differ and its report filters (internal/diff), the       *)
(* report and its summary (internal/models), the rule engine               *)
(* (internal/rules) and the diff command's pipeline (cmd/root.go).         *)
(*                                                                         *)
(* Go strings are sequences of one-character strings, so that formatting,  *)
(* sorting and matching are computed character by character.  A *string    *)
(* or *HealthcheckIR is a sequence of length 0 (nil) or 1 (the pointee).   *)
(* A Go map is a function; the order in which `range` visits its keys is   *)
(* a parameter (seed) of every operator that ranges over a map.            *)
(* An interface{} value is a record tagged with its dynamic type.          *)
(***************************************************************************)
EXTENDS Integers, Sequences, FiniteSets, TLC

VARIABLES
    pc,            \* position of runDiff: start, loaded, parsed, normalized,
                   \* compared, ruled, svcdone, sevdone, exit0, exit1, exit2
    rawOld,        \* the old tree as the parser returned it
    rawNew,        \* the new tree as the parser returned it
    oldIR,         \* runDiff's oldIR
    newIR,         \* runDiff's newIR
    report,        \* runDiff's report
    prev,          \* the report handed to the stage that ran last
    rules,         \* runDiff's r
    rulesFile,     \* the flags of the diff command; a flag is <<>> until
    normalizeOn,   \* runDiff reads it and <<value>> from then on
    serviceFilter,
    severityMin,
    strictMode

vars == << pc, rawOld, rawNew, oldIR, newIR, report, prev, rules, rulesFile,
           normalizeOn, serviceFilter, severityMin, strictMode >>

----------------------------------------------------------------------------
(* Bounds *)

\* longest ports / mounts / string list of a service in the inputs
MaxLen == 2
\* number of distinct map iteration orders tried for each `range` over a map
MaxSeed == 3
\* longest run of characters after the / of a mount target and of the glob
\* written for it
MaxGlob == 2

----------------------------------------------------------------------------
(* Strings *)

\* the characters used, in byte order
Alphabet ==
    << "$", "*", "+", ".", "/", "0", "1", "2", "3", "4", "5", "6", "7", "8",
       "9", ":", "?", "@", "D", "K", "L", "[", "\\", "^", "_",
       "a", "b", "c", "d", "e", "f", "g", "h", "i", "k", "l", "m", "n", "o", "p",
       "r", "s", "t", "u", "v", "w", "x", "y" >>

Code(c) == CHOOSE i \in 1..Len(Alphabet) : Alphabet[i] = c

RECURSIVE StrLess(_, _)
\* Go's a < b on strings: bytewise lexicographic
StrLess(a, b) ==
    IF b = <<>> THEN FALSE
    ELSE IF a = <<>> THEN TRUE
    ELSE IF a[1] # b[1] THEN Code(a[1]) < Code(b[1])
    ELSE StrLess(Tail(a), Tail(b))

Front(s) == SubSeq(s, 1, Len(s) - 1)
Last(s) == s[Len(s)]
Range(s) == { s[i] : i \in DOMAIN s }

RECURSIVE Join(_, _)
\* the strings of ss joined with sep between them
Join(ss, sep) ==
    IF ss = <<>> THEN <<>>
    ELSE IF Len(ss) = 1 THEN ss[1]
    ELSE ss[1] \o sep \o Join(Tail(ss), sep)

Dot == <<".">>
W_services == <<"s", "e", "r", "v", "i", "c", "e", "s">>
W_volumes == <<"v", "o", "l", "u", "m", "e", "s">>
W_networks == <<"n", "e", "t", "w", "o", "r", "k", "s">>
W_image == <<"i", "m", "a", "g", "e">>
W_environment == <<"e", "n", "v", "i", "r", "o", "n", "m", "e", "n", "t">>
W_ports == <<"p", "o", "r", "t", "s">>
W_depends_on == <<"d", "e", "p", "e", "n", "d", "s", "_", "o", "n">>
W_healthcheck == <<"h", "e", "a", "l", "t", "h", "c", "h", "e", "c", "k">>
W_command == <<"c", "o", "m", "m", "a", "n", "d">>
W_entrypoint == <<"e", "n", "t", "r", "y", "p", "o", "i", "n", "t">>
W_restart == <<"r", "e", "s", "t", "a", "r", "t">>
W_latest == <<"l", "a", "t", "e", "s", "t">>

----------------------------------------------------------------------------
(* sort, and the iteration order of maps *)

RECURSIVE InsertString(_, _)
\* one pass of the insertion sort: x moves left while x < its predecessor
InsertString(s, x) ==
    IF s = <<>> \/ ~StrLess(x, Last(s)) THEN Append(s, x)
    ELSE Append(InsertString(Front(s), x), Last(s))

RECURSIVE SortStrings(_)
\* sort.Strings on a slice of at most 12 elements (insertion sort)
SortStrings(s) ==
    IF Len(s) <= 1 THEN s ELSE InsertString(SortStrings(Front(s)), Last(s))

\* normalizePorts' less function with <= on the host ports
PortLessOrEqual(p, q) ==
    IF p.ContainerPort # q.ContainerPort
    THEN StrLess(p.ContainerPort, q.ContainerPort)
    ELSE ~StrLess(q.HostPort, p.HostPort)

PortLess(p, q) ==
    IF p.ContainerPort # q.ContainerPort
    THEN StrLess(p.ContainerPort, q.ContainerPort)
    ELSE StrLess(p.HostPort, q.HostPort)

RECURSIVE InsertPort(_, _)
InsertPort(s, x) ==
    IF s = <<>> \/ ~PortLess(x, Last(s)) THEN Append(s, x)
    ELSE Append(InsertPort(Front(s), x), Last(s))

RECURSIVE SortPorts(_)
\* sort.Slice with normalizePorts' less function
SortPorts(s) ==
    IF Len(s) <= 1 THEN s ELSE InsertPort(SortPorts(Front(s)), Last(s))

MountLess(m, n) == StrLess(m.Target, n.Target)

RECURSIVE InsertMount(_, _)
InsertMount(s, x) ==
    IF s = <<>> \/ ~MountLess(x, Last(s)) THEN Append(s, x)
    ELSE Append(InsertMount(Front(s), x), Last(s))

RECURSIVE SortMounts(_)
\* sort.Slice with normalizeVolumes' less function
SortMounts(s) ==
    IF Len(s) <= 1 THEN s ELSE InsertMount(SortMounts(Front(s)), Last(s))

RECURSIVE Ascending(_)
\* the strings of a set, ascending
Ascending(S) ==
    IF S = {} THEN <<>>
    ELSE LET m == CHOOSE x \in S : \A y \in S : ~StrLess(y, x)
         IN <<m>> \o Ascending(S \ {m})

RemoveAt(s, i) == SubSeq(s, 1, i - 1) \o SubSeq(s, i + 1, Len(s))

RECURSIVE Permute(_, _)
\* the seed-th permutation of s
Permute(s, seed) ==
    IF s = <<>> THEN <<>>
    ELSE LET i == (seed % Len(s)) + 1
         IN <<s[i]>> \o Permute(RemoveAt(s, i), seed \div Len(s))

\* the keys of a map in the order one `range` over it visits them
RangeOrder(S, seed) == Permute(Ascending(S), seed)

Seeds == 0..MaxSeed

----------------------------------------------------------------------------
(* internal/parser/normalizer.go *)

RECURSIVE Unique(_)
\* a sorted list without its repeated items
Unique(s) ==
    IF Len(s) <= 1 THEN s
    ELSE IF s[1] = s[2] THEN Unique(Tail(s))
    ELSE <<s[1]>> \o Unique(Tail(s))

\* sortedStrings that keeps one of several equal strings
sortedStringsUnique(s) == IF Len(s) = 0 THEN s ELSE Unique(SortStrings(s))

\* sortedStrings: a sorted copy (the slice itself when it is empty)
sortedStrings(s) == IF Len(s) = 0 THEN s ELSE SortStrings(s)

normalizePorts(ports) == IF Len(ports) = 0 THEN ports ELSE SortPorts(ports)

normalizeVolumes(volumes) ==
    IF Len(volumes) = 0 THEN volumes ELSE SortMounts(volumes)

normalizeService(svc) ==
    [ Image       |-> svc.Image,
      Build       |-> svc.Build,
      Env         |-> svc.Env,
      EnvFiles    |-> sortedStrings(svc.EnvFiles),
      Ports       |-> normalizePorts(svc.Ports),
      Volumes     |-> normalizeVolumes(svc.Volumes),
      Networks    |-> sortedStrings(svc.Networks),
      DependsOn   |-> sortedStrings(svc.DependsOn),
      Healthcheck |-> svc.Healthcheck,
      Command     |-> svc.Command,
      Entrypoint  |-> svc.Entrypoint,
      Profiles    |-> sortedStrings(svc.Profiles),
      Restart     |-> svc.Restart,
      Labels      |-> svc.Labels ]

\* Normalize: a new tree with every service normalized, volumes and networks
\* copied as they are
Normalize(ir) ==
    [ Services |-> [ name \in DOMAIN ir.Services |->
                        normalizeService(ir.Services[name]) ],
      Volumes  |-> [ name \in DOMAIN ir.Volumes |-> ir.Volumes[name] ],
      Networks |-> [ name \in DOMAIN ir.Networks |-> ir.Networks[name] ] ]

----------------------------------------------------------------------------
(* internal/models: the report *)

ZeroSummary ==
    [ ServicesAdded |-> 0, ServicesRemoved |-> 0, ServicesChanged |-> 0,
      VolumesAdded |-> 0, VolumesRemoved |-> 0,
      NetworksAdded |-> 0, NetworksRemoved |-> 0,
      TotalChanges |-> 0, BreakingCount |-> 0, WarningCount |-> 0,
      InfoCount |-> 0 ]

NewDiffReport == [ Summary |-> ZeroSummary, Changes |-> <<>> ]

\* AddChange: append, count the change and its severity
AddChange(r, c) ==
    LET s == r.Summary
        t == [s EXCEPT !.TotalChanges = @ + 1]
        u == CASE c.Severity = "breaking" -> [t EXCEPT !.BreakingCount = @ + 1]
               [] c.Severity = "warning" -> [t EXCEPT !.WarningCount = @ + 1]
               [] c.Severity = "info" -> [t EXCEPT !.InfoCount = @ + 1]
               [] OTHER -> t
    IN [ Summary |-> u, Changes |-> Append(r.Changes, c) ]

RECURSIVE AddChanges(_, _)
AddChanges(r, cs) ==
    IF cs = <<>> THEN r ELSE AddChanges(AddChange(r, cs[1]), Tail(cs))

SeverityLevel(s) ==
    CASE s = "breaking" -> 3
      [] s = "warning" -> 2
      [] s = "info" -> 1
      [] OTHER -> 0

ParseSeverity(s) ==
    CASE s = "breaking" -> "breaking"
      [] s = "warning" -> "warning"
      [] OTHER -> "info"

\* interface{} values: the nil interface, and values boxed with their type
NilIface == [ kind |-> "nil" ]
StringIface(s) == [ kind |-> "string", str |-> s ]
ServiceIface(s) == [ kind |-> "ServiceIR", svc |-> s ]
VolumeIface(v) == [ kind |-> "VolumeIR", vol |-> v ]
NetworkIface(n) == [ kind |-> "NetworkIR", net |-> n ]
PortIface(p) == [ kind |-> "PortIR", port |-> p ]
MountIface(m) == [ kind |-> "MountIR", mount |-> m ]
SliceIface(l) == [ kind |-> "[]string", list |-> l ]
\* a *HealthcheckIR boxed in an interface: never the nil interface, even
\* when the pointer is nil
HealthcheckIface(p) == [ kind |-> "*HealthcheckIR", ptr |-> p ]

Change(kind, scope, name, path, before, after, severity) ==
    [ Kind |-> kind, Scope |-> scope, Name |-> name, Path |-> path,
      Before |-> before, After |-> after, Severity |-> severity ]

----------------------------------------------------------------------------
(* internal/diff/severity.go *)

Digits == { "0", "1", "2", "3", "4", "5", "6", "7", "8", "9" }

\* strings.LastIndex(s, c) for a one-character c; 0 when c is not in s
LastIndexOf(s, c) ==
    IF \E i \in DOMAIN s : s[i] = c
    THEN CHOOSE i \in DOMAIN s : s[i] = c /\ \A j \in DOMAIN s : s[j] = c => j <= i
    ELSE 0

extractTag(image) ==
    IF "@" \in Range(image) THEN <<>>
    ELSE IF ":" \notin Range(image) THEN W_latest
    ELSE LET tag == SubSeq(image, LastIndexOf(image, ":") + 1, Len(image))
         IN IF "/" \in Range(tag) THEN W_latest ELSE tag

RECURSIVE LeadingDigits(_)
LeadingDigits(s) ==
    IF s = <<>> \/ s[1] \notin Digits THEN <<>>
    ELSE <<s[1]>> \o LeadingDigits(Tail(s))

extractMajorVersion(tag) ==
    IF tag = <<>> \/ tag = W_latest THEN <<>>
    ELSE LET t == IF tag[1] = "v" THEN Tail(tag) ELSE tag
         IN LeadingDigits(t)

\* imageSeverity without the test that the two major versions differ
imageSeverityAnyMajor(old, new) ==
    IF old = <<>> \/ new = <<>> THEN "info"
    ELSE LET oldTag == extractTag(old[1])
             newTag == extractTag(new[1])
         IN IF oldTag = newTag THEN "info"
            ELSE IF extractMajorVersion(oldTag) # <<>>
                      /\ extractMajorVersion(newTag) # <<>>
                 THEN "warning"
                 ELSE "info"

\* imageSeverity(old, new) on two *string
imageSeverity(old, new) ==
    IF old = <<>> \/ new = <<>> THEN "info"
    ELSE LET oldTag == extractTag(old[1])
             newTag == extractTag(new[1])
             oldMajor == extractMajorVersion(oldTag)
             newMajor == extractMajorVersion(newTag)
         IN IF oldTag = newTag THEN "info"
            ELSE IF oldMajor # <<>> /\ newMajor # <<>> /\ oldMajor # newMajor
                 THEN "warning"
                 ELSE "info"

\* strings.Contains(s, sub)
Contains(s, sub) ==
    \E i \in 1..(Len(s) - Len(sub) + 1) : SubSeq(s, i, i + Len(sub) - 1) = sub

\* strings.HasSuffix(s, suffix)
HasSuffix(s, suffix) ==
    Len(s) >= Len(suffix) /\ SubSeq(s, Len(s) - Len(suffix) + 1, Len(s)) = suffix

RECURSIVE Atoi(_)
\* strconv.Atoi on a run of digits (short enough to fit an int)
Atoi(s) == IF s = <<>> THEN 0 ELSE 10 * Atoi(Front(s)) + (Code(Last(s)) - Code("0"))

\* the removals that IsBreakingChange holds breaking
BreakingRemoval(c) ==
    /\ c.Kind = "removed"
    /\ \/ Contains(c.Path, Dot \o W_environment \o Dot)
       \/ Contains(c.Path, Dot \o W_ports \o Dot)
       \/ Contains(c.Path, Dot \o W_volumes \o Dot)
       \/ Contains(c.Path, Dot \o W_depends_on \o Dot)
       \/ Contains(c.Path, Dot \o W_healthcheck)
       \/ c.Scope = "service"
       \/ c.Scope = "volume"

\* IsBreakingChange comparing the two major versions as strings
IsBreakingChangeLexical(c) ==
    \/ BreakingRemoval(c)
    \/ /\ HasSuffix(c.Path, Dot \o W_image) /\ c.Kind = "modified"
       /\ c.Before.kind = "string" /\ c.After.kind = "string"
       /\ LET oldMajor == extractMajorVersion(extractTag(c.Before.str))
              newMajor == extractMajorVersion(extractTag(c.After.str))
          IN oldMajor # <<>> /\ newMajor # <<>> /\ StrLess(newMajor, oldMajor)

\* IsBreakingChange: a removal of the listed kinds, or an image whose new
\* major version is the lower number
IsBreakingChange(c) ==
    \/ BreakingRemoval(c)
    \/ /\ HasSuffix(c.Path, Dot \o W_image) /\ c.Kind = "modified"
       /\ c.Before.kind = "string" /\ c.After.kind = "string"
       /\ LET oldMajor == extractMajorVersion(extractTag(c.Before.str))
              newMajor == extractMajorVersion(extractTag(c.After.str))
          IN oldMajor # <<>> /\ newMajor # <<>>
               /\ Atoi(newMajor) < Atoi(oldMajor)

----------------------------------------------------------------------------
(* internal/diff: helpers *)

\* mapKeys: the keys in the order the range visits them
mapKeys(m, seed) == RangeOrder(DOMAIN m, seed)

\* envKeys: the keys, sorted
envKeys(m, seed) == SortStrings(RangeOrder(DOMAIN m, seed))

\* diffSets without the three sorts
diffSetsUnsorted(old, new, seed) ==
    LET oldSet == Range(old)
        newSet == Range(new)
        isAdded(x) == x \notin oldSet
        isRemoved(x) == x \notin newSet
        isCommon(x) == x \in newSet
    IN [ added   |-> SelectSeq(RangeOrder(newSet, seed), isAdded),
         removed |-> SelectSeq(RangeOrder(oldSet, seed), isRemoved),
         common  |-> SelectSeq(RangeOrder(oldSet, seed), isCommon) ]

\* diffSets with the second loop testing oldSet where it has to test newSet
diffSetsWrongSet(old, new, seed) ==
    LET oldSet == Range(old)
        newSet == Range(new)
        isAdded(x) == x \notin oldSet
        isRemoved(x) == x \notin oldSet
        isCommon(x) == x \in oldSet
    IN [ added   |-> SortStrings(SelectSeq(RangeOrder(newSet, seed), isAdded)),
         removed |-> SortStrings(SelectSeq(RangeOrder(oldSet, seed), isRemoved)),
         common  |-> SortStrings(SelectSeq(RangeOrder(oldSet, seed), isCommon)) ]

\* diffSets: both lists become sets; each result is collected by ranging
\* over a set and then sorted
diffSets(old, new, seed) ==
    LET oldSet == Range(old)
        newSet == Range(new)
        isAdded(x) == x \notin oldSet
        isRemoved(x) == x \notin newSet
        isCommon(x) == x \in newSet
    IN [ added   |-> SortStrings(SelectSeq(RangeOrder(newSet, seed), isAdded)),
         removed |-> SortStrings(SelectSeq(RangeOrder(oldSet, seed), isRemoved)),
         common  |-> SortStrings(SelectSeq(RangeOrder(oldSet, seed), isCommon)) ]

\* ptrEqual on two *string
ptrEqual(a, b) ==
    IF a = <<>> /\ b = <<>> THEN TRUE
    ELSE IF a = <<>> \/ b = <<>> THEN FALSE
    ELSE a[1] = b[1]

\* ptrValue giving the empty string for a nil pointer
ptrValueOrEmpty(p) == StringIface(IF p = <<>> THEN <<>> ELSE p[1])

\* ptrValue: the nil interface for a nil pointer, else the string boxed
ptrValue(p) == IF p = <<>> THEN NilIface ELSE StringIface(p[1])

sliceEqual(a, b) ==
    Len(a) = Len(b) /\ \A i \in DOMAIN a : a[i] = b[i]

\* healthcheckEqual comparing the pointers, which two parsed trees never share
healthcheckEqualPointers(a, b) == a = <<>> /\ b = <<>>

\* healthcheckEqual on two *HealthcheckIR
healthcheckEqual(a, b) ==
    IF a = <<>> /\ b = <<>> THEN TRUE
    ELSE IF a = <<>> \/ b = <<>> THEN FALSE
    ELSE a[1] = b[1]

\* changeKindForPtrs on two interface{} values
changeKindForPtrs(old, new) ==
    IF old = NilIface THEN "added"
    ELSE IF new = NilIface THEN "removed"
    ELSE "modified"

\* the key of a binding without its host port
PortKeyNoHost(p) == p.ContainerPort \o <<"/">> \o p.Protocol

PortKey(p) == p.HostPort \o <<":">> \o p.ContainerPort \o <<"/">> \o p.Protocol

\* portMap: key -> port, a later port of the list replacing an earlier one
portMap(ports) ==
    [ k \in { PortKey(ports[i]) : i \in DOMAIN ports } |->
        LET is == { i \in DOMAIN ports : PortKey(ports[i]) = k }
        IN ports[CHOOSE i \in is : \A j \in is : j <= i] ]

\* mountMap: target -> mount, a later mount replacing an earlier one
mountMap(mounts) ==
    [ k \in { mounts[i].Target : i \in DOMAIN mounts } |->
        LET is == { i \in DOMAIN mounts : mounts[i].Target = k }
        IN mounts[CHOOSE i \in is : \A j \in is : j <= i] ]

\* the changes made from the keys of a list, in order
MapSeq(keys, F(_)) == [ i \in DOMAIN keys |-> F(keys[i]) ]

----------------------------------------------------------------------------
(* internal/diff: the field-level comparison of one service *)

compareEnv(svcName, basePath, old, new, seed) ==
    LET d == diffSets(envKeys(old, seed), envKeys(new, seed), seed)
        path(key) == basePath \o Dot \o W_environment \o Dot \o key
        add(key) == Change("added", "service", svcName, path(key),
                           NilIface, ptrValue(new[key]), "info")
        rem(key) == Change("removed", "service", svcName, path(key),
                           ptrValue(old[key]), NilIface, "breaking")
        differs(key) == ptrValue(old[key]) # ptrValue(new[key])
        mod(key) == Change("modified", "service", svcName, path(key),
                           ptrValue(old[key]), ptrValue(new[key]), "warning")
    IN MapSeq(d.added, add) \o MapSeq(d.removed, rem)
         \o MapSeq(SelectSeq(d.common, differs), mod)

comparePorts(svcName, basePath, old, new, seed) ==
    LET oldMap == portMap(old)
        newMap == portMap(new)
        d == diffSets(mapKeys(oldMap, seed), mapKeys(newMap, seed), seed)
        path(key) == basePath \o Dot \o W_ports \o Dot \o key
        add(key) == Change("added", "service", svcName, path(key),
                           NilIface, PortIface(newMap[key]), "info")
        rem(key) == Change("removed", "service", svcName, path(key),
                           PortIface(oldMap[key]), NilIface, "breaking")
        differs(key) == oldMap[key] # newMap[key]
        mod(key) == Change("modified", "service", svcName, path(key),
                           PortIface(oldMap[key]), PortIface(newMap[key]),
                           "warning")
    IN MapSeq(d.added, add) \o MapSeq(d.removed, rem)
         \o MapSeq(SelectSeq(d.common, differs), mod)

compareServiceVolumes(svcName, basePath, old, new, seed) ==
    LET oldMap == mountMap(old)
        newMap == mountMap(new)
        d == diffSets(mapKeys(oldMap, seed), mapKeys(newMap, seed), seed)
        path(key) == basePath \o Dot \o W_volumes \o Dot \o key
        add(key) == Change("added", "service", svcName, path(key),
                           NilIface, MountIface(newMap[key]), "info")
        rem(key) == Change("removed", "service", svcName, path(key),
                           MountIface(oldMap[key]), NilIface, "breaking")
        differs(key) == oldMap[key] # newMap[key]
        mod(key) == Change("modified", "service", svcName, path(key),
                           MountIface(oldMap[key]), MountIface(newMap[key]),
                           "warning")
    IN MapSeq(d.added, add) \o MapSeq(d.removed, rem)
         \o MapSeq(SelectSeq(d.common, differs), mod)

compareStringSlice(svcName, path, old, new, severity, seed) ==
    LET d == diffSets(old, new, seed)
        add(item) == Change("added", "service", svcName, path \o Dot \o item,
                            NilIface, StringIface(item), "info")
        rem(item) == Change("removed", "service", svcName, path \o Dot \o item,
                            StringIface(item), NilIface, severity)
    IN MapSeq(d.added, add) \o MapSeq(d.removed, rem)

compareService(name, old, new, seed) ==
    LET basePath == W_services \o Dot \o name
        image ==
            IF ~ptrEqual(old.Image, new.Image)
            THEN << Change("modified", "service", name,
                           basePath \o Dot \o W_image,
                           ptrValue(old.Image), ptrValue(new.Image),
                           imageSeverity(old.Image, new.Image)) >>
            ELSE <<>>
        healthcheck ==
            IF ~healthcheckEqual(old.Healthcheck, new.Healthcheck)
            THEN << Change(changeKindForPtrs(HealthcheckIface(old.Healthcheck),
                                             HealthcheckIface(new.Healthcheck)),
                           "service", name, basePath \o Dot \o W_healthcheck,
                           HealthcheckIface(old.Healthcheck),
                           HealthcheckIface(new.Healthcheck),
                           IF old.Healthcheck # <<>> /\ new.Healthcheck = <<>>
                           THEN "breaking" ELSE "info") >>
            ELSE <<>>
        command ==
            IF ~sliceEqual(old.Command, new.Command)
            THEN << Change("modified", "service", name,
                           basePath \o Dot \o W_command,
                           SliceIface(old.Command), SliceIface(new.Command),
                           "info") >>
            ELSE <<>>
        entrypoint ==
            IF ~sliceEqual(old.Entrypoint, new.Entrypoint)
            THEN << Change("modified", "service", name,
                           basePath \o Dot \o W_entrypoint,
                           SliceIface(old.Entrypoint),
                           SliceIface(new.Entrypoint), "warning") >>
            ELSE <<>>
        restart ==
            IF ~ptrEqual(old.Restart, new.Restart)
            THEN << Change("modified", "service", name,
                           basePath \o Dot \o W_restart,
                           ptrValue(old.Restart), ptrValue(new.Restart),
                           "info") >>
            ELSE <<>>
    IN image
         \o compareEnv(name, basePath, old.Env, new.Env, seed)
         \o comparePorts(name, basePath, old.Ports, new.Ports, seed)
         \o compareServiceVolumes(name, basePath, old.Volumes, new.Volumes, seed)
         \o compareStringSlice(name, basePath \o Dot \o W_networks,
                               old.Networks, new.Networks, "info", seed)
         \o compareStringSlice(name, basePath \o Dot \o W_depends_on,
                               old.DependsOn, new.DependsOn, "warning", seed)
         \o healthcheck \o command \o entrypoint \o restart

----------------------------------------------------------------------------
(* internal/diff: entities, Compare and the report filters *)

RECURSIVE CommonChanges(_, _, _, _)
\* the loop over the common services: the changes of each in turn
CommonChanges(names, old, new, seed) ==
    IF names = <<>> THEN <<>>
    ELSE compareService(names[1], old[names[1]], new[names[1]], seed)
           \o CommonChanges(Tail(names), old, new, seed)

compareServices(old, new, r, seed) ==
    LET d == diffSets(mapKeys(old, seed), mapKeys(new, seed), seed)
        add(name) == Change("added", "service", name, W_services \o Dot \o name,
                            NilIface, ServiceIface(new[name]), "info")
        rem(name) == Change("removed", "service", name,
                            W_services \o Dot \o name,
                            ServiceIface(old[name]), NilIface, "breaking")
        changed(name) == Len(compareService(name, old[name], new[name], seed)) > 0
        r1 == [r EXCEPT !.Summary.ServicesAdded = Len(d.added),
                        !.Summary.ServicesRemoved = Len(d.removed)]
        r2 == AddChanges(r1, MapSeq(d.added, add))
        r3 == AddChanges(r2, MapSeq(d.removed, rem))
        r4 == AddChanges(r3, CommonChanges(d.common, old, new, seed))
    IN [r4 EXCEPT !.Summary.ServicesChanged = Len(SelectSeq(d.common, changed))]

compareVolumes(old, new, r, seed) ==
    LET d == diffSets(mapKeys(old, seed), mapKeys(new, seed), seed)
        add(name) == Change("added", "volume", name, W_volumes \o Dot \o name,
                            NilIface, VolumeIface(new[name]), "info")
        rem(name) == Change("removed", "volume", name, W_volumes \o Dot \o name,
                            VolumeIface(old[name]), NilIface, "breaking")
        r1 == [r EXCEPT !.Summary.VolumesAdded = Len(d.added),
                        !.Summary.VolumesRemoved = Len(d.removed)]
    IN AddChanges(AddChanges(r1, MapSeq(d.added, add)), MapSeq(d.removed, rem))

compareNetworks(old, new, r, seed) ==
    LET d == diffSets(mapKeys(old, seed), mapKeys(new, seed), seed)
        add(name) == Change("added", "network", name, W_networks \o Dot \o name,
                            NilIface, NetworkIface(new[name]), "info")
        rem(name) == Change("removed", "network", name,
                            W_networks \o Dot \o name,
                            NetworkIface(old[name]), NilIface, "warning")
        r1 == [r EXCEPT !.Summary.NetworksAdded = Len(d.added),
                        !.Summary.NetworksRemoved = Len(d.removed)]
    IN AddChanges(AddChanges(r1, MapSeq(d.added, add)), MapSeq(d.removed, rem))

\* Compare with the networks compared first
CompareNetworksFirst(old, new, seed) ==
    compareVolumes(old.Volumes, new.Volumes,
        compareServices(old.Services, new.Services,
            compareNetworks(old.Networks, new.Networks, NewDiffReport, seed),
            seed),
        seed)

\* Compare(old, new); seed is the iteration order of the maps it ranges over
Compare(old, new, seed) ==
    compareNetworks(old.Networks, new.Networks,
        compareVolumes(old.Volumes, new.Volumes,
            compareServices(old.Services, new.Services, NewDiffReport, seed),
            seed),
        seed)

\* FilterByService: the summary is the input's, the changes are filtered
FilterByService(r, service) ==
    LET keep(c) == c.Scope = "service" /\ c.Name = service
    IN [ Summary |-> r.Summary, Changes |-> SelectSeq(r.Changes, keep) ]

\* FilterBySeverity keeping the changes above the minimum only
FilterBySeverityAbove(r, minSeverity) ==
    LET minLevel == SeverityLevel(ParseSeverity(minSeverity))
        keep(c) == SeverityLevel(c.Severity) > minLevel
    IN [ Summary |-> r.Summary, Changes |-> SelectSeq(r.Changes, keep) ]

\* FilterBySeverity: the summary is the input's, the changes are filtered
FilterBySeverity(r, minSeverity) ==
    LET minLevel == SeverityLevel(ParseSeverity(minSeverity))
        keep(c) == SeverityLevel(c.Severity) >= minLevel
    IN [ Summary |-> r.Summary, Changes |-> SelectSeq(r.Changes, keep) ]

----------------------------------------------------------------------------
(* regexp, for the patterns the rule engine compiles: literals, `.`, `\c`, *)
(* the anchors ^ and $, and the repetitions *, + and ? (with an optional   *)
(* lazy mark)                                                              *)

Repetitions == { "*", "+", "?" }

RECURSIVE RegexScan(_, _, _)
\* TRUE iff regexp.Compile accepts re; st: 0 no operand yet, 1 after an
\* operand, 2 after a repetition, 3 after a lazy mark; depth: open groups
RegexScan(re, st, depth) ==
    IF re = <<>> THEN depth = 0
    ELSE IF re[1] = "\\"
         THEN Len(re) >= 2 /\ RegexScan(Tail(Tail(re)), 1, depth)
    ELSE IF re[1] \in Repetitions
         THEN CASE st = 0 -> FALSE
                [] st = 1 -> RegexScan(Tail(re), 2, depth)
                [] st = 2 -> re[1] = "?" /\ RegexScan(Tail(re), 3, depth)
                [] OTHER -> FALSE
    ELSE IF re[1] = "[" THEN Len(re) >= 3 /\ "]" \in Range(SubSeq(re, 3, Len(re)))
    ELSE IF re[1] = "(" THEN RegexScan(Tail(re), 0, depth + 1)
    ELSE IF re[1] = ")" THEN depth > 0 /\ RegexScan(Tail(re), 1, depth - 1)
    ELSE RegexScan(Tail(re), 1, depth)

\* the patterns of the rule sets below have no group and no character class
\* that compiles, which RegexAt does not match
RegexCompiles(re) == RegexScan(re, 0, 0)

RECURSIVE RegexAt(_, _, _)
\* TRUE iff re matches a prefix of t[i..]
RegexAt(re, t, i) ==
    IF re = <<>> THEN TRUE
    ELSE IF re[1] = "^" THEN i = 1 /\ RegexAt(Tail(re), t, i)
    ELSE IF re[1] = "$" THEN i = Len(t) + 1 /\ RegexAt(Tail(re), t, i)
    ELSE LET alen == IF re[1] = "\\" THEN 2 ELSE 1
             any == re[1] = "."
             lit == IF re[1] = "\\" THEN re[2] ELSE re[1]
             ok(j) == j <= Len(t) /\ (any \/ t[j] = lit)
             q == IF Len(re) > alen /\ re[alen + 1] \in Repetitions
                  THEN re[alen + 1] ELSE "1"
             lazy == q # "1" /\ Len(re) > alen + 1 /\ re[alen + 2] = "?"
             rest == SubSeq(re, alen + (IF q = "1" THEN 1 ELSE IF lazy THEN 3 ELSE 2),
                            Len(re))
             lo == IF q \in { "*", "?" } THEN 0 ELSE 1
             hi == IF q \in { "*", "+" } THEN Len(t) + 1 - i ELSE 1
         IN \E k \in lo..hi :
               /\ \A j \in i..(i + k - 1) : ok(j)
               /\ RegexAt(rest, t, i + k)

\* (*Regexp).MatchString: a match anywhere in t
MatchString(re, t) == \E i \in 1..(Len(t) + 1) : RegexAt(re, t, i)

RECURSIVE ReplaceAll(_, _, _)
\* strings.ReplaceAll(s, c, by) for a one-character c
ReplaceAll(s, c, by) ==
    IF s = <<>> THEN <<>>
    ELSE (IF s[1] = c THEN by ELSE <<s[1]>>) \o ReplaceAll(Tail(s), c, by)

----------------------------------------------------------------------------
(* internal/rules *)

\* matchGlob: the pattern is rewritten to a regexp and matched; when the
\* regexp does not compile the rewritten pattern is compared with str
matchGlob(pattern, str) ==
    LET p1 == ReplaceAll(pattern, ".", <<"\\", ".">>)
        p2 == ReplaceAll(p1, "*", <<".", "*">>)
        p3 == <<"^">> \o p2 \o <<"$">>
    IN IF ~RegexCompiles(p3) THEN p3 = str ELSE MatchString(p3, str)

\* compileRules: an error as soon as a regex-mode pattern does not compile
compileRules(config) ==
    LET bad(rule) == rule.IsRegex /\ ~RegexCompiles(rule.Pattern)
    IN IF \/ \E i \in DOMAIN config.SeverityOverrides :
                bad(config.SeverityOverrides[i])
          \/ \E i \in DOMAIN config.IgnorePatterns :
                bad(config.IgnorePatterns[i])
       THEN [ err |-> TRUE, rules |-> [ nil |-> TRUE ] ]
       ELSE [ err |-> FALSE,
              rules |-> [ nil |-> FALSE,
                          config |-> config,
                          severityPatterns |-> config.SeverityOverrides,
                          ignorePatterns |-> config.IgnorePatterns ] ]

\* the rules value of LoadRulesFromDir when the directory has no rules file
EmptyConfig ==
    [ SeverityOverrides |-> <<>>, IgnorePatterns |-> <<>>,
      ServiceIgnores |-> <<>> ]

RuleMatches(rule, path) ==
    IF rule.IsRegex THEN MatchString(rule.Pattern, path)
    ELSE matchGlob(rule.Pattern, path)

\* GetSeverityOverride with the last matching override winning
GetSeverityOverrideLast(r, path) ==
    LET hits == { i \in DOMAIN r.severityPatterns :
                    RuleMatches(r.severityPatterns[i], path) }
    IN IF hits = {} THEN [ ok |-> FALSE, severity |-> "" ]
       ELSE [ ok |-> TRUE,
              severity |-> r.severityPatterns[
                  CHOOSE i \in hits : \A j \in hits : j <= i].Severity ]

\* GetSeverityOverride: the severity of the first matching override
GetSeverityOverride(r, path) ==
    LET hits == { i \in DOMAIN r.severityPatterns :
                    RuleMatches(r.severityPatterns[i], path) }
    IN IF hits = {} THEN [ ok |-> FALSE, severity |-> "" ]
       ELSE [ ok |-> TRUE,
              severity |-> r.severityPatterns[
                  CHOOSE i \in hits : \A j \in hits : i <= j].Severity ]

ShouldIgnore(r, path) ==
    \E i \in DOMAIN r.ignorePatterns : RuleMatches(r.ignorePatterns[i], path)

ShouldIgnoreServiceField(r, service, field) ==
    IF service \notin DOMAIN r.config.ServiceIgnores THEN FALSE
    ELSE LET si == r.config.ServiceIgnores[service]
         IN \/ \E i \in DOMAIN si.Fields : si.Fields[i] = field
            \/ \E i \in DOMAIN si.Paths : matchGlob(si.Paths[i], field)

----------------------------------------------------------------------------
(* cmd/root.go *)

RECURSIVE SplitFrom(_, _)
\* splitPath's loop: cur is the segment being collected
SplitFrom(path, cur) ==
    IF path = <<>> THEN (IF cur # <<>> THEN <<cur>> ELSE <<>>)
    ELSE IF path[1] = "."
         THEN (IF cur # <<>> THEN <<cur>> ELSE <<>>) \o SplitFrom(Tail(path), <<>>)
         ELSE SplitFrom(Tail(path), Append(cur, path[1]))

splitPath(path) == SplitFrom(path, <<>>)

extractFieldFromPath(path) ==
    LET parts == splitPath(path)
    IN IF Len(parts) >= 3 THEN parts[3] ELSE <<>>

\* the loop with the overrides looked up before the ignore rules: a change
\* with an override is kept
DroppedUnlessOverridden(r, c) ==
    /\ ~GetSeverityOverride(r, c.Path).ok
    /\ \/ ShouldIgnore(r, c.Path)
       \/ ShouldIgnoreServiceField(r, c.Name, extractFieldFromPath(c.Path))

\* the body of applyRules' loop for one change: dropped, or kept with the
\* severity of the first matching override
Dropped(r, c) ==
    \/ ShouldIgnore(r, c.Path)
    \/ ShouldIgnoreServiceField(r, c.Name, extractFieldFromPath(c.Path))

Rescored(r, c) ==
    LET o == GetSeverityOverride(r, c.Path)
    IN IF o.ok THEN [c EXCEPT !.Severity = o.severity] ELSE c

RECURSIVE RetainedChanges(_, _)
RetainedChanges(r, cs) ==
    IF cs = <<>> THEN <<>>
    ELSE (IF Dropped(r, cs[1]) THEN <<>> ELSE << Rescored(r, cs[1]) >>)
           \o RetainedChanges(r, Tail(cs))

CountSeverity(cs, sev) == Cardinality({ i \in DOMAIN cs : cs[i].Severity = sev })

\* applyRules: the changes are filtered and rescored; of the summary only
\* the total and the three severity counts are assigned
applyRules(rep, r) ==
    LET filtered == RetainedChanges(r, rep.Changes)
        breakingCount == CountSeverity(filtered, "breaking")
        warningCount == CountSeverity(filtered, "warning")
    IN [ Changes |-> filtered,
         Summary |-> [ rep.Summary EXCEPT
                         !.TotalChanges = Len(filtered),
                         !.BreakingCount = breakingCount,
                         !.WarningCount = warningCount,
                         !.InfoCount = Len(filtered) - breakingCount - warningCount ] ]

----------------------------------------------------------------------------
(* The inputs: trees as the parser returns them *)

N_api == <<"a", "p", "i">>
N_db == <<"d", "b">>
N_pg == <<"p", "g">>
N_net == <<"n", "e", "t">>
K_K == <<"K">>
K_L == <<"L">>
V_x == <<"x">>
V_y == <<"y">>
Tcp == <<"t", "c", "p">>
Img18 == <<"n", ":", "1", "8">>
Img20 == <<"n", ":", "2", "0">>
Img9 == <<"n", ":", "9">>
Img10 == <<"n", ":", "1", "0">>
\* the major version of Img9 with a minor version, and with the prefix v
Img9Minor == <<"n", ":", "9", ".", "1">>
ImgV9 == <<"n", ":", "v", "9">>
\* no tag, a tag that is a word, a digest after a tag, a registry with a port
ImgNoTag == <<"n">>
ImgWord == <<"n", ":", "l", "t", "s">>
ImgDigest == <<"n", ":", "9", "@", "s">>
ImgRegistry == <<"r", ":", "5", "/", "n">>
ImageUniverse ==
    { Img18, Img20, Img9, Img10, Img9Minor, ImgV9, ImgNoTag, ImgWord,
      ImgDigest, ImgRegistry }

EmptyMap == [ k \in {} |-> <<>> ]

BaseService ==
    [ Image |-> <<>>, Build |-> <<>>, Env |-> EmptyMap, EnvFiles |-> <<>>,
      Ports |-> <<>>, Volumes |-> <<>>, Networks |-> <<>>, DependsOn |-> <<>>,
      Healthcheck |-> <<>>, Command |-> <<>>, Entrypoint |-> <<>>,
      Profiles |-> <<>>, Restart |-> <<>>, Labels |-> EmptyMap ]

P9 == [ HostIP |-> <<>>, HostPort |-> <<"9">>, ContainerPort |-> <<"9">>,
        Protocol |-> Tcp ]
\* the same binding as P9 on another host address: the same synthetic key
P9ip == [ HostIP |-> <<"1">>, HostPort |-> <<"9">>, ContainerPort |-> <<"9">>,
          Protocol |-> Tcp ]
P10 == [ HostIP |-> <<>>, HostPort |-> <<"1", "0">>,
         ContainerPort |-> <<"1", "0">>, Protocol |-> Tcp ]
\* the container port of P9 published on another host port
P10to9 == [ HostIP |-> <<>>, HostPort |-> <<"1", "0">>,
            ContainerPort |-> <<"9">>, Protocol |-> Tcp ]
PortUniverse == { P9, P9ip, P10 }
\* the bindings of the container port 9 on two host ports
HostPortUniverse == { P9, P10to9 }

M1 == [ Type |-> "volume", Source |-> <<"d">>, Target |-> <<"/", "t">>,
        ReadOnly |-> FALSE ]
\* another source mounted at the target of M1
M2 == [ Type |-> "bind", Source |-> <<"/", "s">>, Target |-> <<"/", "t">>,
        ReadOnly |-> FALSE ]
M3 == [ Type |-> "volume", Source |-> <<"d">>, Target |-> <<"/", "u">>,
        ReadOnly |-> TRUE ]
MountUniverse == { M1, M2, M3 }

H1 == [ Test |-> << <<"c">> >>, Interval |-> <<"5", "s">>, Timeout |-> <<>>,
        Retries |-> 3, StartPeriod |-> <<>>, Disable |-> FALSE ]
H2 == [ H1 EXCEPT !.Retries = 5 ]

\* the sequences over S of length at most n
SeqsUpTo(S, n) == UNION { [1..k -> S] : k \in 0..n }

\* an optional value: nil or a pointer to one of S
Optional(S) == { <<>> } \cup { <<v>> : v \in S }

\* a key without a value (KEY), with the empty value (KEY=) or with a value
EnvUniverse ==
    UNION { [ks -> Optional({ <<>>, V_x, V_y })] : ks \in SUBSET { K_K, K_L } }

\* the services that differ from the empty service in one field
FieldFamilies ==
    { { [BaseService EXCEPT !.Image = v] : v \in Optional(ImageUniverse) },
      { [BaseService EXCEPT !.Env = v] : v \in EnvUniverse },
      { [BaseService EXCEPT !.Ports = v] : v \in SeqsUpTo(PortUniverse, MaxLen) },
      { [BaseService EXCEPT !.Ports = v] : v \in SeqsUpTo(HostPortUniverse, MaxLen) },
      { [BaseService EXCEPT !.Volumes = v] : v \in SeqsUpTo(MountUniverse, MaxLen) },
      { [BaseService EXCEPT !.Networks = v] : v \in SeqsUpTo({ V_x, V_y }, MaxLen) },
      { [BaseService EXCEPT !.DependsOn = v] : v \in SeqsUpTo({ V_x, V_y }, MaxLen) },
      { [BaseService EXCEPT !.Profiles = v] : v \in SeqsUpTo({ V_x, V_y }, MaxLen) },
      { [BaseService EXCEPT !.EnvFiles = v] : v \in SeqsUpTo({ V_x, V_y }, MaxLen) },
      { [BaseService EXCEPT !.Healthcheck = v] : v \in Optional({ H1, H2 }) },
      { [BaseService EXCEPT !.Command = v] : v \in SeqsUpTo({ V_x, V_y }, 1) },
      { [BaseService EXCEPT !.Entrypoint = v] : v \in SeqsUpTo({ V_x, V_y }, 1) },
      { [BaseService EXCEPT !.Restart = v] : v \in Optional({ V_x, V_y }) },
      { [BaseService EXCEPT !.Labels = v] :
            v \in { EmptyMap, [k \in { K_K } |-> V_x], [k \in { K_K } |-> V_y] } } }

EmptyEntity ==
    [ Driver |-> <<>>, DriverOpts |-> EmptyMap, External |-> FALSE,
      Name |-> <<>>, Labels |-> EmptyMap ]

Tree(services, volumes, networks) ==
    [ Services |-> services,
      Volumes  |-> [ n \in volumes |-> EmptyEntity ],
      Networks |-> [ n \in networks |-> EmptyEntity ] ]

\* one service, api, on both sides, the two differing in one field
FieldPairs ==
    UNION { { << Tree([n \in { N_api } |-> a], {}, {}),
                 Tree([n \in { N_api } |-> b], {}, {}) >> : a \in F, b \in F } :
            F \in FieldFamilies }

S18 == [ BaseService EXCEPT !.Image = << Img18 >>,
                            !.Env = [k \in { K_K } |-> << V_x >>],
                            !.DependsOn = << V_x >>,
                            !.Healthcheck = << H1 >> ]
S20 == [ BaseService EXCEPT !.Image = << Img20 >> ]

\* trees that differ in their entities
EntityTrees ==
    { Tree(s, v, n) :
        s \in UNION { [ns -> { BaseService, S20 }] : ns \in SUBSET { N_api, N_db } },
        v \in SUBSET { N_pg },
        n \in SUBSET { N_net } }

\* a service whose name has a dot: the name of api followed by .image
N_apiImage == N_api \o Dot \o W_image

DottedTrees ==
    { Tree(s, {}, {}) :
        s \in UNION { [ns -> { S20, [BaseService EXCEPT !.Image = << Img18 >>] }] :
                        ns \in SUBSET { N_api, N_apiImage } } }

DiffInputs ==
    FieldPairs \cup (EntityTrees \X EntityTrees) \cup (DottedTrees \X DottedTrees)

\* the trees of the runs of the whole command; the volume has the name of
\* the service api
PipelineTrees ==
    { Tree(s, e, IF e = {} THEN {} ELSE { N_net }) :
        s \in { [n \in { N_api } |-> a] : a \in { S18, S20 } }
              \cup { [n \in { N_api, N_db } |-> IF n = N_api THEN a ELSE S20] :
                       a \in { S18, S20 } },
        e \in { {}, { N_api } } }


PipelineInputs == PipelineTrees \X PipelineTrees

\* rule configurations as the YAML decoder returns them
Config(overrides, ignores, serviceIgnores) ==
    [ SeverityOverrides |-> overrides, IgnorePatterns |-> ignores,
      ServiceIgnores |-> serviceIgnores ]

G_servicesDb == W_services \o Dot \o N_db
G_anyImage == <<"*", ".">> \o W_image
R_apiImage == N_api \o <<"\\", ".">> \o W_image
R_imageEnd == W_image \o <<"$">>

RuleConfigs ==
    { EmptyConfig,
      Config(<<>>, << [ Pattern |-> G_servicesDb, IsRegex |-> FALSE,
                       Reason |-> "" ] >>, EmptyMap),
      Config(<< [ Pattern |-> G_anyImage, Severity |-> "info",
                  IsRegex |-> FALSE ] >>, <<>>, EmptyMap),
      Config(<<>>, <<>>,
             [ n \in { N_api } |->
                 [ Paths |-> <<>>, Fields |-> << W_environment >> ] ]),
      Config(<<>>, << [ Pattern |-> <<"(">>, IsRegex |-> TRUE,
                       Reason |-> "" ] >>, EmptyMap),
      \* every path breaking; the image of api ignored by a regexp, its
      \* depends_on by the service's own list
      Config(<< [ Pattern |-> <<"*">>, Severity |-> "breaking",
                  IsRegex |-> FALSE ] >>,
             << [ Pattern |-> R_apiImage, IsRegex |-> TRUE, Reason |-> "" ] >>,
             [ n \in { N_api } |->
                 [ Paths |-> <<>>, Fields |-> << W_depends_on >> ] ]),
      \* two overrides that match the image path, with different severities
      Config(<< [ Pattern |-> R_imageEnd, Severity |-> "info",
                  IsRegex |-> TRUE ],
                [ Pattern |-> G_anyImage, Severity |-> "breaking",
                  IsRegex |-> FALSE ] >>, <<>>, EmptyMap),
      \* an override with a severity that is none of the three
      Config(<< [ Pattern |-> G_anyImage, Severity |-> "critical",
                  IsRegex |-> FALSE ] >>, <<>>, EmptyMap),
      \* every field of the service api ignored
      Config(<<>>, <<>>,
             [ n \in { N_api } |->
                 [ Paths |-> << <<"*">> >>, Fields |-> <<>> ] ]),
      \* an override in regex mode that does not compile
      Config(<< [ Pattern |-> <<"*">>, Severity |-> "info",
                  IsRegex |-> TRUE ] >>, <<>>, EmptyMap) }

NilRules == [ nil |-> TRUE ]
EmptyTree == Tree(EmptyMap, {}, {})

----------------------------------------------------------------------------
(* cmd/root.go: runDiff, one action per stage *)

Init ==
    /\ pc = "start"
    /\ rawOld = EmptyTree /\ rawNew = EmptyTree
    /\ oldIR = EmptyTree /\ newIR = EmptyTree
    /\ report = NewDiffReport /\ prev = NewDiffReport
    /\ rules = NilRules
    /\ rulesFile = <<>> /\ normalizeOn = <<>> /\ serviceFilter = <<>>
    /\ severityMin = <<>> /\ strictMode = <<>>

\* --rules names a file: a load error ends the run with exit code 2
LoadRulesExplicit ==
    /\ pc = "start"
    /\ \E config \in RuleConfigs :
         LET res == compileRules(config)
         IN /\ rulesFile' = << "file" >>
            /\ rules' = IF res.err THEN NilRules ELSE res.rules
            /\ pc' = IF res.err THEN "exit2" ELSE "loaded"
    /\ UNCHANGED << rawOld, rawNew, oldIR, newIR, report, prev, normalizeOn,
                    serviceFilter, severityMin, strictMode >>

\* no --rules: LoadRulesFromDir, whose error is dropped
LoadRulesFromDir ==
    /\ pc = "start"
    /\ \E config \in RuleConfigs :
         LET res == compileRules(config)
         IN /\ rulesFile' = << "" >>
            /\ rules' = IF res.err THEN NilRules ELSE res.rules
            /\ pc' = "loaded"
    /\ UNCHANGED << rawOld, rawNew, oldIR, newIR, report, prev, normalizeOn,
                    serviceFilter, severityMin, strictMode >>

\* both files parse
Parse ==
    /\ pc = "loaded"
    /\ \E pair \in PipelineInputs :
         /\ rawOld' = pair[1] /\ rawNew' = pair[2]
         /\ oldIR' = pair[1] /\ newIR' = pair[2]
    /\ pc' = "parsed"
    /\ UNCHANGED << report, prev, rules, rulesFile, normalizeOn, serviceFilter,
                    severityMin, strictMode >>

\* a file does not parse
ParseFails ==
    /\ pc = "loaded"
    /\ pc' = "exit2"
    /\ UNCHANGED << rawOld, rawNew, oldIR, newIR, report, prev, rules,
                    rulesFile, normalizeOn, serviceFilter, severityMin,
                    strictMode >>

NormalizeStep ==
    /\ pc = "parsed"
    /\ \E on \in BOOLEAN :
         /\ normalizeOn' = << on >>
         /\ oldIR' = IF on THEN Normalize(oldIR) ELSE oldIR
         /\ newIR' = IF on THEN Normalize(newIR) ELSE newIR
    /\ pc' = "normalized"
    /\ UNCHANGED << rawOld, rawNew, report, prev, rules, rulesFile,
                    serviceFilter, severityMin, strictMode >>

CompareStep ==
    /\ pc = "normalized"
    /\ \E seed \in Seeds : report' = Compare(oldIR, newIR, seed)
    /\ prev' = report
    /\ pc' = "compared"
    /\ UNCHANGED << rawOld, rawNew, oldIR, newIR, rules, rulesFile,
                    normalizeOn, serviceFilter, severityMin, strictMode >>

ApplyRulesStep ==
    /\ pc = "compared"
    /\ report' = IF rules.nil THEN report ELSE applyRules(report, rules)
    /\ prev' = report
    /\ pc' = "ruled"
    /\ UNCHANGED << rawOld, rawNew, oldIR, newIR, rules, rulesFile,
                    normalizeOn, serviceFilter, severityMin, strictMode >>

ServiceFilters == { <<>>, N_api }

FilterByServiceStep ==
    /\ pc = "ruled"
    /\ \E f \in ServiceFilters :
         /\ serviceFilter' = << f >>
         /\ report' = IF f # <<>> THEN FilterByService(report, f) ELSE report
    /\ prev' = report
    /\ pc' = "svcdone"
    /\ UNCHANGED << rawOld, rawNew, oldIR, newIR, rules, rulesFile,
                    normalizeOn, severityMin, strictMode >>

FilterBySeverityStep ==
    /\ pc = "svcdone"
    /\ \E m \in { "info", "warning", "breaking" } :
         /\ severityMin' = << m >>
         /\ report' = FilterBySeverity(report, m)
    /\ prev' = report
    /\ pc' = "sevdone"
    /\ UNCHANGED << rawOld, rawNew, oldIR, newIR, rules, rulesFile,
                    normalizeOn, serviceFilter, strictMode >>

ExitStep ==
    /\ pc = "sevdone"
    /\ \E strict \in BOOLEAN :
         /\ strictMode' = << strict >>
         /\ pc' = IF strict /\ report.Summary.BreakingCount > 0
                  THEN "exit1" ELSE "exit0"
    /\ UNCHANGED << rawOld, rawNew, oldIR, newIR, report, prev, rules,
                    rulesFile, normalizeOn, serviceFilter, severityMin >>

Next ==
    \/ LoadRulesExplicit
    \/ LoadRulesFromDir
    \/ Parse
    \/ ParseFails
    \/ NormalizeStep
    \/ CompareStep
    \/ ApplyRulesStep
    \/ FilterByServiceStep
    \/ FilterBySeverityStep
    \/ ExitStep

Spec == Init /\ [][Next]_vars

\* Normalize and Compare alone, on a wider set of trees
InitDiff ==
    /\ pc = "parsed"
    /\ \E pair \in DiffInputs :
         /\ rawOld = pair[1] /\ rawNew = pair[2]
         /\ oldIR = pair[1] /\ newIR = pair[2]
    /\ report = NewDiffReport /\ prev = NewDiffReport
    /\ rules = NilRules
    /\ rulesFile = << "" >> /\ normalizeOn = <<>> /\ serviceFilter = <<>>
    /\ severityMin = <<>> /\ strictMode = <<>>

NextDiff ==
    \/ NormalizeStep
    \/ CompareStep

SpecDiff == InitDiff /\ [][NextDiff]_vars

\* mount targets, and the globs a rules file has for their paths
GlobTargets == { <<"/">> \o t : t \in SeqsUpTo({ "t", "+", "." }, MaxGlob) }
GlobPatterns ==
    { W_services \o Dot \o N_api \o Dot \o W_volumes \o Dot \o <<"/">> \o g :
        g \in SeqsUpTo({ "t", "+", ".", "*", "?", "(" }, MaxGlob) }

\* applyRules alone: the report of a service that lost one mount, and a
\* rule set with one ignore pattern that is a glob
InitGlob ==
    /\ pc = "compared"
    /\ \E target \in GlobTargets :
         /\ rawOld = Tree([n \in { N_api } |->
                [BaseService EXCEPT !.Volumes = << [M1 EXCEPT !.Target = target] >>]],
                {}, {})
         /\ oldIR = rawOld
    /\ rawNew = Tree([n \in { N_api } |-> BaseService], {}, {})
    /\ newIR = rawNew
    /\ report = Compare(oldIR, newIR, 0)
    /\ prev = NewDiffReport
    /\ \E g \in GlobPatterns :
         rules = compileRules(Config(<<>>,
                     << [ Pattern |-> g, IsRegex |-> FALSE, Reason |-> "" ] >>,
                     EmptyMap)).rules
    /\ rulesFile = << "file" >> /\ normalizeOn = << FALSE >>
    /\ serviceFilter = <<>> /\ severityMin = <<>> /\ strictMode = <<>>

NextGlob == ApplyRulesStep

SpecGlob == InitGlob /\ [][NextGlob]_vars

----------------------------------------------------------------------------
(* What the claims speak of *)

ScopeWord(scope) ==
    CASE scope = "service" -> W_services
      [] scope = "volume" -> W_volumes
      [] OTHER -> W_networks

\* a change at entity granularity: its path is <collection>.<name>
EntityLevel(c) == c.Path = ScopeWord(c.Scope) \o Dot \o c.Name

CountChanges(cs, P(_)) == Cardinality({ i \in DOMAIN cs : P(cs[i]) })

\* the summary that a list of changes shows
Aggregate(cs) ==
    LET entity(scope, kind) ==
            LET is(c) == EntityLevel(c) /\ c.Scope = scope /\ c.Kind = kind
            IN CountChanges(cs, is)
    IN [ ServicesAdded   |-> entity("service", "added"),
         ServicesRemoved |-> entity("service", "removed"),
         ServicesChanged |->
             Cardinality({ cs[i].Name : i \in
                 { j \in DOMAIN cs : cs[j].Scope = "service" /\ ~EntityLevel(cs[j]) } }),
         VolumesAdded    |-> entity("volume", "added"),
         VolumesRemoved  |-> entity("volume", "removed"),
         NetworksAdded   |-> entity("network", "added"),
         NetworksRemoved |-> entity("network", "removed"),
         TotalChanges    |-> Len(cs),
         BreakingCount   |-> CountSeverity(cs, "breaking"),
         WarningCount    |-> CountSeverity(cs, "warning"),
         InfoCount       |-> CountSeverity(cs, "info") ]

Consistent(r) == r.Summary = Aggregate(r.Changes)

\* a filter ran on the report of the state
Filtered ==
    \/ pc = "svcdone" /\ serviceFilter # << <<>> >>
    \/ pc = "sevdone"

\* C1: a report returned by FilterByService or FilterBySeverity has a
\* summary equal to the aggregate of its changes (here: whenever the report
\* handed to the filter had)
C1_FilterSummaryIsAggregate ==
    (Filtered /\ Consistent(prev)) => Consistent(report)

\* C2: after applyRules every count of the summary, the per-scope counts
\* included, equals the count the retained changes show
C2_RulesSummaryIsAggregate ==
    (pc = "ruled" /\ ~rules.nil) => Consistent(report)

\* a value that is absent: the nil interface, or a nil pointer in an interface
Absent(v) ==
    \/ v = NilIface
    \/ v.kind = "*HealthcheckIR" /\ v.ptr = <<>>

KindOk(c) ==
    CASE c.Kind = "added" -> Absent(c.Before)
      [] c.Kind = "removed" -> Absent(c.After)
      [] OTHER -> ~Absent(c.Before) /\ ~Absent(c.After) /\ c.Before # c.After

\* C3: every change of Compare has the before and after values its kind
\* requires: added none before, removed none after, modified both and unequal
C3_KindInvariant ==
    pc = "compared" => \A i \in DOMAIN report.Changes : KindOk(report.Changes[i])

Normalized == normalizeOn = << TRUE >>

\* C4: Compare on the normalized trees returns the same report whatever the
\* order in which the maps are iterated
C4_Deterministic ==
    (pc = "compared" /\ Normalized) =>
        \A seed \in Seeds :
            Compare(Normalize(rawOld), Normalize(rawNew), seed) = report

\* two changes came out of one range over a map with the maps iterated in
\* several orders
C4_Witness ==
    /\ pc = "compared" /\ Normalized
    /\ \E i, j \in DOMAIN report.Changes :
         /\ i < j
         /\ report.Changes[i].Kind = "added"
         /\ report.Changes[j].Kind = "added"
    /\ N_api \in DOMAIN newIR.Services
    /\ \E seed \in Seeds :
         mapKeys(newIR.Services[N_api].Env, seed)
           # mapKeys(newIR.Services[N_api].Env, 0)

\* the tree with the ports, mounts, networks and profiles of every service
\* permuted
PermuteLists(tree, seed) ==
    [ tree EXCEPT !.Services =
        [ n \in DOMAIN tree.Services |->
            [ tree.Services[n] EXCEPT !.Ports = Permute(@, seed),
                                      !.Volumes = Permute(@, seed),
                                      !.Networks = Permute(@, seed),
                                      !.Profiles = Permute(@, seed) ] ] ]

\* C5: permuting the ports, mounts, networks or profiles of the old tree
\* before normalization changes neither Compare(old, new) nor
\* Compare(new, old)
C5_OrderInvariant ==
    (pc = "compared" /\ Normalized) =>
        \A seed \in Seeds :
            LET permuted == Normalize(PermuteLists(rawOld, seed))
            IN /\ Compare(permuted, newIR, 0) = report
               /\ Compare(newIR, permuted, 0) = Compare(newIR, oldIR, 0)

\* C6: a normalized tree compared with itself gives no change and a summary
\* of zeros
C6_NoOp ==
    (pc = "compared" /\ Normalized /\ rawOld = rawNew) =>
        /\ report.Changes = <<>>
        /\ report.Summary = ZeroSummary

\* a tree with a filled service was compared with itself
C6_Witness ==
    /\ pc = "compared" /\ Normalized /\ rawOld = rawNew
    /\ N_api \in DOMAIN rawOld.Services
    /\ rawOld.Services[N_api].Healthcheck # <<>>

PathsOf(r, scope, kind) ==
    { r.Changes[i].Path : i \in
        { j \in DOMAIN r.Changes :
            r.Changes[j].Scope = scope /\ r.Changes[j].Kind = kind } }

\* C7: for every scope the paths added by Compare(old, new) are the paths
\* removed by Compare(new, old), and the other way round
C7_AddRemoveSymmetry ==
    pc = "compared" =>
        LET back == Compare(newIR, oldIR, 0)
        IN \A scope \in { "service", "volume", "network" } :
              /\ PathsOf(report, scope, "added") = PathsOf(back, scope, "removed")
              /\ PathsOf(report, scope, "removed") = PathsOf(back, scope, "added")

\* a report with an added and a removed change
C7_Witness ==
    /\ pc = "compared"
    /\ PathsOf(report, "service", "added") # {}
    /\ PathsOf(report, "service", "removed") # {}

\* C8: Normalize is idempotent, the order of elements with equal sort keys
\* included
C8_NormalizeIdempotent ==
    (pc = "normalized" /\ Normalized) =>
        /\ Normalize(oldIR) = oldIR
        /\ Normalize(newIR) = newIR

\* a normalized tree whose service has two different ports with equal sort
\* keys, and another list that the sort reordered
C8_Witness ==
    /\ pc = "normalized" /\ Normalized
    /\ N_api \in DOMAIN oldIR.Services
    /\ LET ports == oldIR.Services[N_api].Ports
       IN /\ Len(ports) >= 2
          /\ ports[1] # ports[2]
          /\ ~PortLess(ports[1], ports[2]) /\ ~PortLess(ports[2], ports[1])
    /\ newIR # rawNew

\* the names of a collection that only the old tree has
OnlyOld(old, new) == DOMAIN old \ DOMAIN new

RemovedEntityOk(r, scope, name) ==
    LET is(c) == c.Scope = scope /\ c.Name = name /\ c.Kind = "removed"
                   /\ EntityLevel(c)
        breaking(c) == is(c) /\ c.Severity = "breaking"
    IN CountChanges(r.Changes, is) = 1 /\ CountChanges(r.Changes, breaking) = 1

\* C9: an entity only the old tree has gives exactly one removed change at
\* entity granularity with severity breaking, counted by the summary, in
\* each of services, volumes and networks
C9_RemovedEntityBreaking ==
    pc = "compared" =>
        /\ \A n \in OnlyOld(oldIR.Services, newIR.Services) :
              RemovedEntityOk(report, "service", n)
        /\ \A n \in OnlyOld(oldIR.Volumes, newIR.Volumes) :
              RemovedEntityOk(report, "volume", n)
        /\ \A n \in OnlyOld(oldIR.Networks, newIR.Networks) :
              RemovedEntityOk(report, "network", n)
        /\ report.Summary.ServicesRemoved =
              Cardinality(OnlyOld(oldIR.Services, newIR.Services))
        /\ report.Summary.VolumesRemoved =
              Cardinality(OnlyOld(oldIR.Volumes, newIR.Volumes))
        /\ report.Summary.NetworksRemoved =
              Cardinality(OnlyOld(oldIR.Networks, newIR.Networks))

BreakingAt(r, path) ==
    \E i \in DOMAIN r.Changes :
        r.Changes[i].Path = path /\ r.Changes[i].Severity = "breaking"

\* C10: in a service of both trees the removal of an environment variable,
\* a port binding, a mount, a depends_on entry or the healthcheck gives a
\* change with severity breaking
C10_FieldRemovalBreaking ==
    pc = "compared" =>
        \A n \in DOMAIN oldIR.Services \cap DOMAIN newIR.Services :
            LET old == oldIR.Services[n]
                new == newIR.Services[n]
                base == W_services \o Dot \o n
            IN /\ \A k \in DOMAIN old.Env \ DOMAIN new.Env :
                     BreakingAt(report, base \o Dot \o W_environment \o Dot \o k)
               /\ \A k \in DOMAIN portMap(old.Ports) \ DOMAIN portMap(new.Ports) :
                     BreakingAt(report, base \o Dot \o W_ports \o Dot \o k)
               /\ \A k \in DOMAIN mountMap(old.Volumes) \ DOMAIN mountMap(new.Volumes) :
                     BreakingAt(report, base \o Dot \o W_volumes \o Dot \o k)
               /\ \A k \in Range(old.DependsOn) \ Range(new.DependsOn) :
                     BreakingAt(report, base \o Dot \o W_depends_on \o Dot \o k)
               /\ (old.Healthcheck # <<>> /\ new.Healthcheck = <<>>) =>
                     BreakingAt(report, base \o Dot \o W_healthcheck)

\* the path of a port binding of a service: host port, container port and
\* protocol
BindingPath(svc, p) ==
    W_services \o Dot \o svc \o Dot \o W_ports \o Dot
      \o p.HostPort \o <<":">> \o p.ContainerPort \o <<"/">> \o p.Protocol

SameBinding(p, q) ==
    /\ p.HostPort = q.HostPort
    /\ p.ContainerPort = q.ContainerPort
    /\ p.Protocol = q.Protocol

ChangesAt(r, path, kind) ==
    Cardinality({ i \in DOMAIN r.Changes :
                    r.Changes[i].Path = path /\ r.Changes[i].Kind = kind })

\* the binding p of one side has no binding with its host port, container
\* port and protocol on the other side: one change of that kind at its path
\* and no other change there
OneSided(r, svc, p, others, kind) ==
    (\A j \in DOMAIN others : ~SameBinding(p, others[j])) =>
        \A k \in { "added", "removed", "modified" } :
            ChangesAt(r, BindingPath(svc, p), k) = (IF k = kind THEN 1 ELSE 0)

\* C11: in a service of both trees two port bindings are one element only
\* when host port, container port and protocol are equal: a binding of the
\* old list with no such binding in the new list gives exactly one removed
\* change at its path, a binding only in the new list exactly one added
\* change, and a modified port change never joins two bindings that differ
\* in one of the three
C11_HostPortInKey ==
    pc = "compared" =>
        /\ \A n \in DOMAIN oldIR.Services \cap DOMAIN newIR.Services :
              LET old == oldIR.Services[n].Ports
                  new == newIR.Services[n].Ports
              IN /\ \A i \in DOMAIN old : OneSided(report, n, old[i], new, "removed")
                 /\ \A j \in DOMAIN new : OneSided(report, n, new[j], old, "added")
        /\ \A i \in DOMAIN report.Changes :
              LET c == report.Changes[i]
              IN (c.Kind = "modified" /\ c.Before.kind = "PortIR") =>
                    SameBinding(c.Before.port, c.After.port)

\* the container port 9 moved from host port 9 to host port 10
C11_Witness ==
    /\ pc = "compared"
    /\ N_api \in DOMAIN oldIR.Services \cap DOMAIN newIR.Services
    /\ oldIR.Services[N_api].Ports = << P9 >>
    /\ newIR.Services[N_api].Ports = << P10to9 >>
    /\ ChangesAt(report, BindingPath(N_api, P9), "removed") = 1
    /\ ChangesAt(report, BindingPath(N_api, P10to9), "added") = 1

\* the major version that the tag of an image of the inputs leads with;
\* -1 for an image whose tag has none
MajorNumber(image) ==
    CASE image = Img18 -> 18
      [] image = Img20 -> 20
      [] image \in { Img9, Img9Minor, ImgV9 } -> 9
      [] image = Img10 -> 10
      [] OTHER -> -1

ImagePath(svc) == W_services \o Dot \o svc \o Dot \o W_image

ChangesOn(r, path) == { i \in DOMAIN r.Changes : r.Changes[i].Path = path }

\* the changes of the image of a service
ImageChanges(r, svc) ==
    { i \in ChangesOn(r, ImagePath(svc)) : r.Changes[i].Name = svc }

\* C12: a service of both trees whose image references differ gives
\* exactly one change at services.<svc>.image, of kind modified, with
\* severity warning when both tags lead with a major version and the two
\* differ, and severity info in every other case
C12_ImageSeverity ==
    pc = "compared" =>
        \A n \in DOMAIN oldIR.Services \cap DOMAIN newIR.Services :
            LET old == oldIR.Services[n].Image
                new == newIR.Services[n].Image
            IN (old # <<>> /\ new # <<>> /\ old # new) =>
                  /\ Cardinality(ImageChanges(report, n)) = 1
                  /\ \A i \in ImageChanges(report, n) :
                        /\ report.Changes[i].Kind = "modified"
                        /\ report.Changes[i].Severity =
                              (IF /\ MajorNumber(old[1]) >= 0
                                  /\ MajorNumber(new[1]) >= 0
                                  /\ MajorNumber(old[1]) # MajorNumber(new[1])
                               THEN "warning" ELSE "info")

\* two images of one major version with different tags were compared
C12_Witness ==
    /\ pc = "compared"
    /\ N_api \in DOMAIN oldIR.Services \cap DOMAIN newIR.Services
    /\ oldIR.Services[N_api].Image = << Img9 >>
    /\ newIR.Services[N_api].Image = << Img9Minor >>
    /\ \E i \in ImageChanges(report, N_api) :
          report.Changes[i].Severity = "info"

\* C13: for a modified image change whose two tags lead with a major
\* version, IsBreakingChange is true exactly when the new major version is
\* the lower number (10 -> 9, and not 9 -> 10), and the severity of such a
\* downgrade is warning
C13_DowngradeIsNumeric ==
    pc = "compared" =>
        \A n \in DOMAIN oldIR.Services \cap DOMAIN newIR.Services :
            LET old == oldIR.Services[n].Image
                new == newIR.Services[n].Image
            IN (/\ old # <<>> /\ new # <<>> /\ old # new
                /\ MajorNumber(old[1]) >= 0 /\ MajorNumber(new[1]) >= 0) =>
                  \A i \in ImageChanges(report, n) :
                      /\ IsBreakingChange(report.Changes[i])
                            <=> MajorNumber(new[1]) < MajorNumber(old[1])
                      /\ IsBreakingChange(report.Changes[i])
                            => report.Changes[i].Severity = "warning"

\* the image went from major version 10 to 9, and IsBreakingChange holds
\* of the change
C13_Witness ==
    /\ pc = "compared"
    /\ N_api \in DOMAIN oldIR.Services \cap DOMAIN newIR.Services
    /\ oldIR.Services[N_api].Image = << Img10 >>
    /\ newIR.Services[N_api].Image = << Img9 >>
    /\ \E i \in ImageChanges(report, N_api) :
          /\ IsBreakingChange(report.Changes[i])
          /\ report.Changes[i].Severity = "warning"

HasPrefix(s, prefix) == Len(s) >= Len(prefix) /\ SubSeq(s, 1, Len(prefix)) = prefix

LabelsPath(svc) ==
    W_services \o Dot \o svc \o Dot \o <<"l", "a", "b", "e", "l", "s">>

\* a change of that kind at a path under services.<svc>.labels that ends
\* with the key
LabelChange(r, svc, key, kind) ==
    \E i \in DOMAIN r.Changes :
        /\ r.Changes[i].Kind = kind
        /\ HasPrefix(r.Changes[i].Path, LabelsPath(svc))
        /\ HasSuffix(r.Changes[i].Path, Dot \o key)

\* C14: in a service of both trees a label key only in the new map gives
\* an added change, a key only in the old map a removed change and a key
\* of both with different values a modified change, each under
\* services.<svc>.labels
C14_LabelsCompared ==
    pc = "compared" =>
        \A n \in DOMAIN oldIR.Services \cap DOMAIN newIR.Services :
            LET old == oldIR.Services[n].Labels
                new == newIR.Services[n].Labels
            IN /\ \A k \in DOMAIN new \ DOMAIN old :
                     LabelChange(report, n, k, "added")
               /\ \A k \in DOMAIN old \ DOMAIN new :
                     LabelChange(report, n, k, "removed")
               /\ \A k \in DOMAIN old \cap DOMAIN new :
                     old[k] # new[k] => LabelChange(report, n, k, "modified")

\* the items of the list field of a service are reconciled as sets under
\* services.<svc>.<field>
ListAsSet(r, svc, field, old, new) ==
    LET path(item) == W_services \o Dot \o svc \o Dot \o field \o Dot \o item
        count(item, kind) == ChangesAt(r, path(item), kind)
    IN /\ \A x \in Range(new) \ Range(old) :
             count(x, "added") = 1 /\ count(x, "removed") = 0
       /\ \A x \in Range(old) \ Range(new) :
             count(x, "removed") = 1 /\ count(x, "added") = 0
       /\ \A x \in Range(old) \cap Range(new) :
             Cardinality(ChangesOn(r, path(x))) = 0

NetworksAsSet ==
    \A n \in DOMAIN oldIR.Services \cap DOMAIN newIR.Services :
        ListAsSet(report, n, W_networks,
                  oldIR.Services[n].Networks, newIR.Services[n].Networks)

DependsOnAsSet ==
    \A n \in DOMAIN oldIR.Services \cap DOMAIN newIR.Services :
        ListAsSet(report, n, W_depends_on,
                  oldIR.Services[n].DependsOn, newIR.Services[n].DependsOn)

ProfilesAsSet ==
    \A n \in DOMAIN oldIR.Services \cap DOMAIN newIR.Services :
        ListAsSet(report, n, <<"p", "r", "o", "f", "i", "l", "e", "s">>,
                  oldIR.Services[n].Profiles, newIR.Services[n].Profiles)

\* C15: in a service of both trees each of networks, depends_on and
\* profiles is compared as a set: one added change for each item only in
\* the new list, one removed change for each item only in the old list, no
\* change for an item of both, whatever the order and the duplicates
C15_ListsAsSets ==
    pc = "compared" => (NetworksAsSet /\ DependsOnAsSet /\ ProfilesAsSet)

EnvPath(svc, key) ==
    W_services \o Dot \o svc \o Dot \o W_environment \o Dot \o key

\* C16: for an environment key of the old service, the key going between
\* declared with a value and declared without one gives exactly one
\* modified change at services.<svc>.environment.<key> with severity
\* warning, and the key missing from the new map gives a removed change and
\* no modified one
C16_UnsetIsNotAbsent ==
    pc = "compared" =>
        \A n \in DOMAIN oldIR.Services \cap DOMAIN newIR.Services :
            LET old == oldIR.Services[n].Env
                new == newIR.Services[n].Env
            IN \A k \in DOMAIN old :
                  /\ (k \in DOMAIN new /\ (old[k] = <<>>) # (new[k] = <<>>)) =>
                        /\ ChangesAt(report, EnvPath(n, k), "modified") = 1
                        /\ ChangesAt(report, EnvPath(n, k), "removed") = 0
                        /\ ChangesAt(report, EnvPath(n, k), "added") = 0
                        /\ \A i \in ChangesOn(report, EnvPath(n, k)) :
                              report.Changes[i].Severity = "warning"
                  /\ k \notin DOMAIN new =>
                        /\ ChangesAt(report, EnvPath(n, k), "removed") = 1
                        /\ ChangesAt(report, EnvPath(n, k), "modified") = 0

\* K went from the empty value to declared without a value, and L from a
\* value to missing
C16_Witness ==
    /\ pc = "compared"
    /\ N_api \in DOMAIN oldIR.Services \cap DOMAIN newIR.Services
    /\ DOMAIN oldIR.Services[N_api].Env = { K_K, K_L }
    /\ DOMAIN newIR.Services[N_api].Env = { K_K }
    /\ oldIR.Services[N_api].Env[K_K] = << <<>> >>
    /\ newIR.Services[N_api].Env[K_K] = <<>>
    /\ ChangesAt(report, EnvPath(N_api, K_K), "modified") = 1
    /\ ChangesAt(report, EnvPath(N_api, K_L), "removed") = 1

\* applyRules ran with a rule set on the report of the state before
RulesApplied == pc = "ruled" /\ ~rules.nil

\* the changes of a report that match neither a global ignore pattern nor
\* an ignore list of their service, in their order
Unignored(r, rep) ==
    LET keep(c) ==
            /\ ~ShouldIgnore(r, c.Path)
            /\ ~ShouldIgnoreServiceField(r, c.Name, extractFieldFromPath(c.Path))
    IN SelectSeq(rep.Changes, keep)

\* two lists of changes equal but for the severities
SameButSeverity(cs, ds) ==
    /\ Len(cs) = Len(ds)
    /\ \A i \in DOMAIN cs : [cs[i] EXCEPT !.Severity = ds[i].Severity] = ds[i]

OverrideHits(r, path) ==
    { i \in DOMAIN r.config.SeverityOverrides :
        RuleMatches(r.config.SeverityOverrides[i], path) }

\* C17: the changes applyRules returns are the changes of its input that
\* match no global ignore pattern and no ignore list of their service, in
\* their order; TotalChanges goes down by the number of dropped changes;
\* a change that matches an ignore rule and an override is dropped
C17_IgnoreBeforeOverride ==
    RulesApplied =>
        LET kept == Unignored(rules, prev)
        IN /\ SameButSeverity(report.Changes, kept)
           /\ report.Summary.TotalChanges =
                 prev.Summary.TotalChanges - (Len(prev.Changes) - Len(kept))
           /\ \A i \in DOMAIN prev.Changes :
                 (ShouldIgnore(rules, prev.Changes[i].Path)
                    /\ OverrideHits(rules, prev.Changes[i].Path) # {}) =>
                       ChangesOn(report, prev.Changes[i].Path) = {}

\* the image change of api matched an ignore pattern and an override and
\* was dropped, and another change was kept
C17_Witness ==
    /\ RulesApplied
    /\ \E i \in DOMAIN prev.Changes :
          /\ prev.Changes[i].Path = ImagePath(N_api)
          /\ ShouldIgnore(rules, ImagePath(N_api))
          /\ OverrideHits(rules, ImagePath(N_api)) # {}
    /\ \E i \in DOMAIN prev.Changes :
          /\ ~ShouldIgnore(rules, prev.Changes[i].Path)
          /\ ShouldIgnoreServiceField(rules, prev.Changes[i].Name,
                                      extractFieldFromPath(prev.Changes[i].Path))
    /\ ChangesOn(report, ImagePath(N_api)) = {}
    /\ report.Changes # <<>>
    /\ Len(report.Changes) < Len(prev.Changes)

Levels == { "info", "warning", "breaking" }

\* the rule set names no severity but the three
ValidOverrides(r) ==
    \A i \in DOMAIN r.config.SeverityOverrides :
        r.config.SeverityOverrides[i].Severity \in Levels

\* the rule set without its overrides
WithoutOverrides(r) ==
    [ r EXCEPT !.severityPatterns = <<>>, !.config.SeverityOverrides = <<>> ]

\* C18: the severity of a retained change is the severity of the first
\* override, in the order of the rule list, that matches its path, and its
\* default severity when none matches; the changes retained and
\* TotalChanges are what they are without the overrides, and the three
\* severity counts are the counts of the new severities (for rule sets
\* whose overrides name info, warning or breaking)
C18_FirstOverrideWins ==
    (RulesApplied /\ ValidOverrides(rules)) =>
        LET kept == Unignored(rules, prev)
            plain == applyRules(prev, WithoutOverrides(rules))
        IN /\ Len(report.Changes) = Len(kept)
           /\ \A i \in DOMAIN report.Changes :
                 LET hits == OverrideHits(rules, kept[i].Path)
                     first == CHOOSE h \in hits : \A g \in hits : h <= g
                 IN report.Changes[i].Severity =
                       (IF hits = {} THEN kept[i].Severity
                        ELSE rules.config.SeverityOverrides[first].Severity)
           /\ SameButSeverity(report.Changes, plain.Changes)
           /\ report.Summary.TotalChanges = plain.Summary.TotalChanges
           /\ report.Summary.BreakingCount = CountSeverity(report.Changes, "breaking")
           /\ report.Summary.WarningCount = CountSeverity(report.Changes, "warning")
           /\ report.Summary.InfoCount = CountSeverity(report.Changes, "info")

\* two overrides with different severities matched the image change, whose
\* severity became the severity of the first, and the counts moved
C18_Witness ==
    /\ RulesApplied /\ ValidOverrides(rules)
    /\ Cardinality(OverrideHits(rules, ImagePath(N_api))) = 2
    /\ \E i \in DOMAIN prev.Changes :
          /\ prev.Changes[i].Path = ImagePath(N_api)
          /\ prev.Changes[i].Severity = "warning"
    /\ \E i \in ChangesOn(report, ImagePath(N_api)) :
          report.Changes[i].Severity = "info"
    /\ report.Summary.WarningCount < prev.Summary.WarningCount
    /\ report.Summary.TotalChanges = prev.Summary.TotalChanges

\* runDiff went past the loading of the rules and the parsing of the files
Diffing == pc \in { "parsed", "normalized", "compared", "ruled", "svcdone",
                    "sevdone", "exit0", "exit1" }

\* C19: when a regex-mode pattern of the rules does not compile, loading
\* returns an error and no rule set (the only way r is nil after loading)
\* and the run stops before Compare, for a rules file named by --rules and
\* for one found in the working directory
C19_BadRegexStopsRun == Diffing => ~rules.nil

\* C20: a rule set that was loaded names no severity but info, warning and
\* breaking, and no change of the report applyRules returns has another
\* severity
C20_UnknownSeverityRejected ==
    RulesApplied =>
        /\ ValidOverrides(rules)
        /\ \A i \in DOMAIN report.Changes : report.Changes[i].Severity \in Levels

\* the rank of a severity under info < warning < breaking
Rank(severity) ==
    CASE severity = "info" -> 1
      [] severity = "warning" -> 2
      [] severity = "breaking" -> 3

AllValid(r) == \A i \in DOMAIN r.Changes : r.Changes[i].Severity \in Levels

\* C21: a filter returns the changes of its input that satisfy its
\* predicate, in their order: FilterByService the changes of scope service
\* whose name is the service, FilterBySeverity the changes whose severity
\* ranks at or above the minimum under info < warning < breaking (for
\* reports whose severities are of the three)
C21_FiltersAreSubsequences ==
    /\ (pc = "svcdone" /\ serviceFilter # << <<>> >>) =>
          LET keep(c) == c.Scope = "service" /\ c.Name = serviceFilter[1]
          IN report.Changes = SelectSeq(prev.Changes, keep)
    /\ (pc = "sevdone" /\ AllValid(prev)) =>
          LET keep(c) == Rank(c.Severity) >= Rank(severityMin[1])
          IN report.Changes = SelectSeq(prev.Changes, keep)

\* FilterByService left out a change, and then FilterBySeverity with the
\* minimum warning left out an info change and kept a warning and a
\* breaking one
C21_Witness ==
    /\ pc = "sevdone" /\ AllValid(prev)
    /\ serviceFilter = << N_api >>
    /\ prev.Summary.VolumesRemoved > 0
    /\ severityMin = << "warning" >>
    /\ \E i \in DOMAIN prev.Changes : prev.Changes[i].Severity = "info"
    /\ \E i \in DOMAIN report.Changes : report.Changes[i].Severity = "warning"
    /\ \E i \in DOMAIN report.Changes : report.Changes[i].Severity = "breaking"

\* the run ended after the report was printed
Completed == pc \in { "exit0", "exit1" }

\* C22: a run that completes exits with code 1 exactly when --strict is
\* set and the final report has a change with severity breaking
C22_StrictExitCode ==
    Completed =>
        (pc = "exit1" <=>
            /\ strictMode = << TRUE >>
            /\ \E i \in DOMAIN report.Changes :
                  report.Changes[i].Severity = "breaking")

\* C23: in a service of both trees an item removed from the networks list
\* gives a removed change with severity warning
C23_NetworkItemRemovalWarning ==
    pc = "compared" =>
        \A n \in DOMAIN oldIR.Services \cap DOMAIN newIR.Services :
            \A x \in Range(oldIR.Services[n].Networks)
                       \ Range(newIR.Services[n].Networks) :
                \E i \in ChangesOn(report,
                        W_services \o Dot \o n \o Dot \o W_networks \o Dot \o x) :
                    /\ report.Changes[i].Kind = "removed"
                    /\ report.Changes[i].Severity = "warning"

RECURSIVE GlobMatch(_, _)
\* the whole of str is the pattern with each * replaced by a run of
\* characters; every other character of the pattern stands for itself
GlobMatch(pattern, str) ==
    IF pattern = <<>> THEN str = <<>>
    ELSE IF pattern[1] = "*"
         THEN \E k \in 0..Len(str) :
                 GlobMatch(Tail(pattern), SubSeq(str, k + 1, Len(str)))
         ELSE /\ str # <<>>
              /\ str[1] = pattern[1]
              /\ GlobMatch(Tail(pattern), Tail(str))

\* the ignore list of the service of a change of scope service names the
\* third segment of its path, or has a glob that matches it
ServiceIgnoreCovers(r, c) ==
    /\ c.Scope = "service"
    /\ c.Name \in DOMAIN r.config.ServiceIgnores
    /\ Len(splitPath(c.Path)) >= 3
    /\ LET si == r.config.ServiceIgnores[c.Name]
           field == splitPath(c.Path)[3]
       IN \/ \E i \in DOMAIN si.Fields : si.Fields[i] = field
          \/ \E i \in DOMAIN si.Paths : GlobMatch(si.Paths[i], field)

\* C24: a change that no global ignore pattern matches is dropped by
\* applyRules only when it has scope service and the ignore list of that
\* service covers the third segment of its path; a volume or network
\* change with the name of the service is not dropped
C24_ServiceIgnoreIsScoped ==
    RulesApplied =>
        \A i \in DOMAIN prev.Changes :
            LET c == prev.Changes[i]
            IN (~ShouldIgnore(rules, c.Path) /\ ChangesOn(report, c.Path) = {})
                  => ServiceIgnoreCovers(rules, c)

\* C25: a pattern that is not in regex mode matches a path exactly when the
\* whole path is the pattern with each * replaced by a run of characters,
\* every other character (. + ? [ ( included) standing for itself: a change
\* is dropped by the ignore patterns exactly when one of them matches its
\* path in that sense
C25_GlobIsLiteral ==
    RulesApplied =>
        \A i \in DOMAIN prev.Changes :
            (ChangesOn(report, prev.Changes[i].Path) = {})
              <=> \E j \in DOMAIN rules.config.IgnorePatterns :
                     GlobMatch(rules.config.IgnorePatterns[j].Pattern,
                               prev.Changes[i].Path)

\* the place of a change in the order of the output: entity-level added,
\* entity-level removed, field-level
OrderClass(c) ==
    IF ~EntityLevel(c) THEN 3
    ELSE IF c.Kind = "added" THEN 1
    ELSE 2

InOrder(cs) ==
    \A i, j \in DOMAIN cs :
        i < j =>
            /\ OrderClass(cs[i]) <= OrderClass(cs[j])
            /\ (OrderClass(cs[i]) = 3 /\ OrderClass(cs[j]) = 3) =>
                  ~StrLess(cs[j].Name, cs[i].Name)

\* C26: in the changes of Compare the entity-level added changes come
\* first, then the entity-level removed changes, then the field-level
\* changes grouped by entity in ascending order of the entity names; no
\* entity-level change comes after a field-level change
C26_OutputOrder == pc = "compared" => InOrder(report.Changes)

OfScope(cs, scope) == LET is(c) == c.Scope = scope IN SelectSeq(cs, is)

ScopeRank(scope) ==
    CASE scope = "service" -> 1
      [] scope = "volume" -> 2
      [] scope = "network" -> 3

\* C26 as amended: the changes of the services come first, then the
\* changes of the volumes, then the changes of the networks, and within
\* each collection the entity-level added changes come first, then the
\* entity-level removed changes, then the field-level changes grouped by
\* entity in ascending order of the entity names
C26_OutputOrderPerCollection ==
    pc = "compared" =>
        /\ \A i, j \in DOMAIN report.Changes :
              i < j => ScopeRank(report.Changes[i].Scope)
                         <= ScopeRank(report.Changes[j].Scope)
        /\ \A scope \in { "service", "volume", "network" } :
              InOrder(OfScope(report.Changes, scope))

\* a removed service, a field-level change of another service and, after
\* them, an added volume and a removed network
C26_Witness ==
    /\ pc = "compared"
    /\ \E i, j, k, l \in DOMAIN report.Changes :
          /\ i < j /\ j < k /\ k < l
          /\ report.Changes[i].Scope = "service"
          /\ OrderClass(report.Changes[i]) = 2
          /\ report.Changes[j].Scope = "service"
          /\ OrderClass(report.Changes[j]) = 3
          /\ report.Changes[k].Scope = "volume"
          /\ OrderClass(report.Changes[k]) = 1
          /\ report.Changes[l].Scope = "network"
          /\ OrderClass(report.Changes[l]) = 2

\* C27: no two changes of Compare have the same path
C27_PathsUnique ==
    pc = "compared" =>
        \A i, j \in DOMAIN report.Changes :
            i # j => report.Changes[i].Path # report.Changes[j].Path

\* the multiset of the elements of a list
BagOf(s) == [ x \in Range(s) |-> Cardinality({ i \in DOMAIN s : s[i] = x }) ]

\* two services with the same elements in every list and the same value
\* in every other field
SameService(a, b) ==
    /\ BagOf(a.Ports) = BagOf(b.Ports)
    /\ BagOf(a.Volumes) = BagOf(b.Volumes)
    /\ BagOf(a.Networks) = BagOf(b.Networks)
    /\ BagOf(a.DependsOn) = BagOf(b.DependsOn)
    /\ BagOf(a.Profiles) = BagOf(b.Profiles)
    /\ BagOf(a.EnvFiles) = BagOf(b.EnvFiles)
    /\ a.Image = b.Image /\ a.Build = b.Build /\ a.Env = b.Env
    /\ a.Healthcheck = b.Healthcheck /\ a.Command = b.Command
    /\ a.Entrypoint = b.Entrypoint /\ a.Restart = b.Restart
    /\ a.Labels = b.Labels

OrderOnly(in, out) ==
    /\ DOMAIN out.Services = DOMAIN in.Services
    /\ \A n \in DOMAIN in.Services : SameService(in.Services[n], out.Services[n])
    /\ out.Volumes = in.Volumes
    /\ out.Networks = in.Networks

\* C28: Normalize changes order only: the trees handed to it are after the
\* call what they were before it, the order of their lists included, and
\* each tree it returns has the entity names, the multisets of the list
\* fields and the values of the other fields of the tree it was given
C28_NormalizeOrderOnly ==
    [][(pc = "parsed" /\ pc' = "normalized" /\ normalizeOn' = << TRUE >>) =>
          /\ rawOld' = oldIR /\ rawNew' = newIR
          /\ OrderOnly(oldIR, oldIR')
          /\ OrderOnly(newIR, newIR')]_vars

\* Normalize reordered the networks of api in the tree it returned, and
\* the tree it was given still has them in their order
C28_Witness ==
    /\ pc = "normalized" /\ Normalized
    /\ N_api \in DOMAIN rawOld.Services
    /\ rawOld.Services[N_api].Networks = << V_y, V_x >>
    /\ oldIR.Services[N_api].Networks = << V_x, V_y >>

\* the binding p is not after q in the order of (containerPort, hostPort)
\* with the ports compared as numbers
NumericallyOrdered(p, q) ==
    \/ Atoi(p.ContainerPort) < Atoi(q.ContainerPort)
    \/ /\ Atoi(p.ContainerPort) = Atoi(q.ContainerPort)
       /\ Atoi(p.HostPort) <= Atoi(q.HostPort)

\* C29: after Normalize the port bindings of every service ascend by
\* (containerPort, hostPort) with the ports compared as numbers: container
\* port 9 comes before container port 10
C29_PortsSortedNumerically ==
    (pc = "normalized" /\ Normalized) =>
        \A tree \in { oldIR, newIR } :
            \A n \in DOMAIN tree.Services :
                LET ports == tree.Services[n].Ports
                IN \A i \in 1..(Len(ports) - 1) :
                      NumericallyOrdered(ports[i], ports[i + 1])

\* C30: for every change of Compare but the modification of an image,
\* IsBreakingChange is true exactly when the severity of the change is
\* breaking
C30_PredicateAgreesWithSeverity ==
    pc = "compared" =>
        \A i \in DOMAIN report.Changes :
            LET c == report.Changes[i]
            IN ~(c.Kind = "modified" /\ c.Path = ImagePath(c.Name)) =>
                  (IsBreakingChange(c) <=> c.Severity = "breaking")

====
